---- MODULE Spec2Model ----
(***************************************************************************)
(* Document indexing and retrieval engine of dynamic_rag.                  *)
(*                                                                         *)
(* Spec      upload, background ingestion, delete and the reindex endpoint *)
(*           (app/api/v1/endpoints/documents.py) over the relational store *)
(*           and the vector index (services/retrieval/vector_store.py).    *)
(* SpecRerun Spec plus a second invocation of process_document_background  *)
(*           on a document whose first run has ended.                      *)
(* SpecCache CacheService (services/cache/redis_cache.py).                 *)
(* SpecEmbed EmbeddingService (services/retrieval/embedding.py).           *)
(* SpecVec   VectorStoreService (services/retrieval/vector_store.py).      *)
(* SpecRank  _combine_results (services/retrieval/hybrid_retrieval.py) and *)
(*           RerankerService.rerank (services/retrieval/reranker.py).      *)
(* SpecRetrieve  HybridRetrievalService.retrieve.                          *)
(* SpecLoop  the coroutines of a run, a query and another request on the   *)
(*           event loop of a worker process.                               *)
(* SpecStep4 step 4 of a run: get_qdrant_client (api/deps.py), then        *)
(*           ensure_collection_exists and upsert_vectors.                  *)
(* SpecChunk ChunkerService.chunk_document_with_pages                      *)
(*           (services/ingestion/chunker.py).                              *)
(* SpecFilter  HybridRetrievalService.retrieve with filter_conditions.     *)
(* SpecChat  the chat endpoint (app/api/v1/endpoints/chat.py), its Result  *)
(*           Cache and delete_document.                                    *)
(*                                                                         *)
(* Coroutines are interleaved at their awaits only: everything a handler   *)
(* does between two awaits is one step.                                    *)
(***************************************************************************)
EXTENDS Integers, Sequences, FiniteSets, TLC

VARIABLES
  docs,        \* relational store: Document rows, by document id
  chunkRows,   \* relational store: Chunk rows
  points,      \* vector index: points of the collection
  collection,  \* vector index: 0 when the collection is absent, else its dimension
  qdrantClient,\* deps._qdrant_client is set
  files,       \* number of chunks the parsed text of each uploaded file yields
  nextId,      \* next fresh document id (uuid4 of upload_document)
  run,         \* process_document_background, per document id
  del,         \* delete_document, per document id
  runCount,    \* number of runs started per document id
  firstRun,    \* what the first completed run of a document left behind
  reindexJobs, \* number of reindex requests answered
  faults,      \* number of failures of the stores and providers so far
  redis,       \* CacheService.redis is set
  storeUp,     \* the cache store answers
  store,       \* cache store: key -> serialized value and expiry
  now,         \* clock of the cache store, in seconds
  lastSet,     \* the last successful set of each key not followed by its delete
  cacheRes,    \* the last CacheService call and what it returned
  emb,         \* EmbeddingService.generate_embedding / generate_embeddings_batch
  vsClient,    \* VectorStoreService.client is set
  vsCollection,\* the service's collection: 0 when absent, else its dimension
  vsPoints,    \* points of the service's collection
  vsLast,      \* per id, the vector and payload of its most recent successful upsert
  vsRes,       \* the last VectorStoreService call and how it went
  ret,         \* the last call of the retrieval engine: its arguments and its outcome
  task,        \* event loop: where each coroutine stands
  thread,      \* event loop: the coroutine its thread is executing, or "idle"
  step4,       \* step 4 of a run: the client, the collection and the embeddings
  paged,       \* the last chunk_document_with_pages call and its chunks
  search,      \* the last filtered retrieve call and the records it returned
  chat         \* the chat endpoint, its Result Cache and the documents it serves

ingestVars == <<docs, chunkRows, points, collection, qdrantClient, files, nextId,
                run, del, runCount, firstRun, reindexJobs, faults>>
cacheVars == <<redis, storeUp, store, now, lastSet, cacheRes>>
embedVars == <<emb>>
vecVars == <<vsClient, vsCollection, vsPoints, vsLast, vsRes>>
retVars == <<ret>>
loopVars == <<task, thread>>
stepVars == <<step4>>
pageVars == <<paged>>
searchVars == <<search>>
chatVars == <<chat>>
restVars == <<stepVars, pageVars, searchVars, chatVars>>
vars == <<ingestVars, cacheVars, embedVars, vecVars, retVars, loopVars, restVars>>

----------------------------------------------------------------------------
(* Bounds *)

MaxDocs == 2
MaxChunks == 2
MaxReindex == 1
MaxFaults == 2

DocIds == 1..MaxDocs

(* Program constants *)

EMBEDDING_DIMENSION == 768

----------------------------------------------------------------------------
(* Data model *)

UPLOADED == "uploaded"
PROCESSING == "processing"
COMPLETED == "completed"
FAILED == "failed"

DocumentStatus == {UPLOADED, PROCESSING, COMPLETED, FAILED}

\* No Document row under this id.
NoRow == [status |-> "absent", total_chunks |-> 0, error_message |-> "None",
          retry_count |-> 0]

\* Document(...) of upload_document with the column defaults of models.Document;
\* total_chunks, NULL until a run completes, is 0 here.
NewDocument == [status |-> UPLOADED, total_chunks |-> 0, error_message |-> "None",
                retry_count |-> 0]

\* f"{document_id}_chunk_{i}"
ChunkId(d, i) == <<d, i>>

\* vector_ids of a run over n chunks: one id per enumerate index.
VectorIdsOffByOne(d, n) == [i \in 0..(n - 1) |-> ChunkId(d, i + 1)]
VectorIds(d, n) == [i \in 0..(n - 1) |-> ChunkId(d, i)]

\* The Chunk row built for chunk i; chunk_index is the chunker's enumerate index.
ChunkRow(d, i, n) ==
  [id |-> ChunkId(d, i), document_id |-> d, chunk_index |-> i,
   vector_id |-> VectorIds(d, n)[i]]

\* The PointStruct built for chunk i: id and the payload's document_id, chunk_index.
Point(d, i, n) ==
  [id |-> VectorIds(d, n)[i], document_id |-> d, chunk_index |-> i]

\* client.upsert: a point replaces the point stored under its id.
UpsertAppend(ps, new) == ps \cup new
Upsert(ps, new) ==
  {p \in ps : \A q \in new : q.id # p.id} \cup new

\* client.delete with Filter(must=[document_id == d]).
DeleteByFilter(ps, d) == {p \in ps : p.document_id # d}

\* client.search restricted by Filter(must=[document_id == d]).
SearchFiltered(ps, d) == {p \in ps : p.document_id = d}

\* INSERT of rows whose primary key is already taken fails.
PkConflict(rows) == \E r \in rows : \E x \in chunkRows : x.id = r.id

----------------------------------------------------------------------------
(* Steps of an ingestion run that can raise *)

BodySteps == {"parse", "chunk", "embed", "client", "ensure", "upsert", "persist"}
ClaimedSteps == {"mark"} \cup (BodySteps \ {"client"}) \cup {"final"}

IdleRun == [pc |-> "idle", mem |-> NoRow, pending |-> {}, raised |-> "None",
            propagated |-> "None", failedTx |-> FALSE, retry0 |-> 0]
IdleDel == [pc |-> "idle", chunks |-> {}, vecFailed |-> FALSE, result |-> "None"]

InitIngest ==
  /\ docs = [d \in DocIds |-> NoRow]
  /\ chunkRows = {}
  /\ points = {}
  /\ collection = 0
  /\ qdrantClient = FALSE
  /\ files = [d \in DocIds |-> 0]
  /\ nextId = 1
  /\ run = [d \in DocIds |-> IdleRun]
  /\ del = [d \in DocIds |-> IdleDel]
  /\ runCount = [d \in DocIds |-> 0]
  /\ firstRun = [d \in DocIds |-> [done |-> FALSE, total_chunks |-> 0,
                                   vectors |-> {}, rows |-> {}]]
  /\ reindexJobs = 0

\* A store or provider call may fail now.
MayFail == faults < MaxFaults

----------------------------------------------------------------------------
(* upload_document *)

\* An upload that queues its run before the commit of the Document row.
upload_scheduled_before_commit(extOk, sizeOk, commitOk, n) ==
  /\ nextId \in DocIds
  /\ IF extOk /\ sizeOk
       THEN /\ docs' = IF commitOk THEN [docs EXCEPT ![nextId] = NewDocument] ELSE docs
            /\ files' = [files EXCEPT ![nextId] = n]
            /\ run' = [run EXCEPT ![nextId] = [IdleRun EXCEPT !.pc = "scheduled"]]
            /\ runCount' = [runCount EXCEPT ![nextId] = 1]
            /\ nextId' = nextId + 1
       ELSE UNCHANGED <<docs, files, run, runCount, nextId>>
  /\ UNCHANGED <<chunkRows, points, collection, qdrantClient, del, firstRun,
                 reindexJobs, faults>>

\* One POST /upload: the file's extension and size, the outcome of the commit, and
\* the number of chunks its text will parse into. A rejected upload or a failed
\* commit raises FileUploadException before anything is stored or scheduled.
upload_document(extOk, sizeOk, commitOk, n) ==
  /\ nextId \in DocIds
  /\ IF extOk /\ sizeOk /\ commitOk
       THEN /\ docs' = [docs EXCEPT ![nextId] = NewDocument]
            /\ files' = [files EXCEPT ![nextId] = n]
            /\ run' = [run EXCEPT ![nextId] = [IdleRun EXCEPT !.pc = "scheduled"]]
            /\ runCount' = [runCount EXCEPT ![nextId] = 1]
            /\ nextId' = nextId + 1
       ELSE UNCHANGED <<docs, files, run, runCount, nextId>>
  /\ UNCHANGED <<chunkRows, points, collection, qdrantClient, del, firstRun,
                 reindexJobs, faults>>

Upload ==
  /\ \E extOk \in BOOLEAN, sizeOk \in BOOLEAN, commitOk \in BOOLEAN, n \in 0..MaxChunks :
       upload_document(extOk, sizeOk, commitOk, n)
  /\ UNCHANGED <<cacheVars, embedVars, vecVars, retVars, loopVars, restVars>>

----------------------------------------------------------------------------
(* process_document_background *)

\* The except block up to its commit: the in-memory Document is marked failed.
MarkFailed(m, e) ==
  [m EXCEPT !.status = FAILED, !.error_message = e, !.retry_count = m.retry_count + 1]

\* A commit of this session can succeed: the Document row to UPDATE is there, no
\* pending Chunk row collides with a stored primary key, and no earlier commit of
\* the session has raised (the run never rolls its session back, unlike get_db).
CanCommit(d) ==
  /\ docs[d].status # "absent"
  /\ ~PkConflict(run[d].pending)
  /\ ~run[d].failedTx

\* select(Document).where(Document.id == document_id), then the status assignment
\* up to the first commit.
RunSelect(d) ==
  /\ run[d].pc = "scheduled"
  /\ \/ \* the query raises: the handler reads the unbound name `document`
        /\ MayFail
        /\ faults' = faults + 1
        /\ run' = [run EXCEPT ![d] = [@ EXCEPT !.pc = "done", !.raised = "select",
                                               !.propagated = "UnboundLocalError"]]
     \/ /\ docs[d].status = "absent"
        /\ run' = [run EXCEPT ![d] = [@ EXCEPT !.pc = "done"]]
        /\ UNCHANGED faults
     \/ /\ docs[d].status # "absent"
        /\ run' = [run EXCEPT ![d] = [@ EXCEPT !.pc = "marking",
                                               !.mem = [docs[d] EXCEPT !.status = PROCESSING],
                                               !.retry0 = docs[d].retry_count]]
        /\ UNCHANGED faults
  /\ UNCHANGED <<docs, chunkRows, points, collection, qdrantClient, files, nextId,
                 del, runCount, firstRun, reindexJobs>>

\* A commit that raises: one the store fails, or one that cannot succeed.
CommitRaises(d) ==
  /\ MayFail \/ ~CanCommit(d)
  /\ faults' = IF CanCommit(d) THEN faults + 1 ELSE faults

\* The rows after the commit that persists PROCESSING. Without the commit the row
\* stays as it was.
RowsUnmarked(d) == docs
RowsMarked(d) == [docs EXCEPT ![d] = run[d].mem]

RunCommitProcessing(d) ==
  /\ run[d].pc = "marking"
  /\ \/ /\ CanCommit(d)
        /\ docs' = RowsMarked(d)
        /\ run' = [run EXCEPT ![d] = [@ EXCEPT !.pc = "processing"]]
        /\ UNCHANGED faults
     \/ /\ CommitRaises(d)
        /\ run' = [run EXCEPT ![d] =
                     [@ EXCEPT !.pc = "failing", !.raised = "mark",
                               !.mem = MarkFailed(@, "mark"), !.failedTx = TRUE]]
        /\ UNCHANGED docs
  /\ UNCHANGED <<chunkRows, points, collection, qdrantClient, files, nextId,
                 del, runCount, firstRun, reindexJobs>>

\* get_qdrant_client: the first call creates the client and, when absent, the
\* collection at settings.EMBEDDING_DIMENSION.
CollectionAfterClient ==
  IF qdrantClient \/ collection # 0 THEN collection ELSE EMBEDDING_DIMENSION

\* ensure_collection_exists(dimension): create-if-absent.
CollectionAfterEnsure(dim) ==
  IF CollectionAfterClient = 0 THEN dim ELSE CollectionAfterClient

\* Steps 1 to 5 and the assignments of step 6, up to the final commit; f is the
\* step that raises ("none": no step does), k the number of Chunk rows added to
\* the session before step 5 raised, and c whether a raising get_qdrant_client had
\* already set the client.
RunBody(d) ==
  /\ run[d].pc = "processing"
  /\ \E f \in BodySteps \cup {"none"}, k \in 0..MaxChunks, c \in BOOLEAN :
       LET n == files[d]
           reachedClient == f \notin {"parse", "chunk", "embed"}
           clientOk == reachedClient /\ f # "client"
           ensured == clientOk /\ f # "ensure"
           upserted == ensured /\ f # "upsert"
           added == IF f = "none" THEN n ELSE IF f = "persist" THEN k ELSE 0
           rows == {ChunkRow(d, i, n) : i \in 0..(added - 1)}
       IN
       /\ f # "none" => MayFail
       /\ f \in {"chunk", "embed", "persist"} => n >= 1
       /\ f = "client" => ~qdrantClient
       /\ IF f = "persist" THEN k < n ELSE k = 0
       /\ f # "client" => c = FALSE
       /\ faults' = IF f = "none" THEN faults ELSE faults + 1
       /\ qdrantClient' = (qdrantClient \/ clientOk \/ c)
       /\ collection' = IF ensured THEN CollectionAfterEnsure(EMBEDDING_DIMENSION)
                        ELSE IF clientOk THEN CollectionAfterClient
                        ELSE collection
       /\ points' = IF upserted
                      THEN Upsert(points, {Point(d, i, n) : i \in 0..(n - 1)})
                      ELSE points
       /\ run' = [run EXCEPT ![d] =
                    IF f = "none"
                      THEN [@ EXCEPT !.pc = "finalizing", !.pending = rows,
                                     !.mem = [@ EXCEPT !.status = COMPLETED,
                                                       !.total_chunks = n]]
                      ELSE [@ EXCEPT !.pc = "failing", !.pending = rows,
                                     !.raised = f, !.mem = MarkFailed(@, f)]]
  /\ UNCHANGED <<docs, chunkRows, files, nextId, del, runCount, firstRun,
                 reindexJobs>>

\* What a completed first run leaves behind.
Snapshot(d, ps, rows) ==
  [done |-> TRUE, total_chunks |-> run[d].mem.total_chunks,
   vectors |-> {p.id : p \in SearchFiltered(ps, d)},
   rows |-> {r \in rows : r.document_id = d}]

\* The final commit: the Document's new fields and the pending Chunk rows, in one
\* transaction.
RunCommitFinal(d) ==
  /\ run[d].pc = "finalizing"
  /\ \/ /\ CanCommit(d)
        /\ docs' = [docs EXCEPT ![d] = run[d].mem]
        /\ chunkRows' = chunkRows \cup run[d].pending
        /\ run' = [run EXCEPT ![d] = [@ EXCEPT !.pc = "done", !.pending = {}]]
        /\ firstRun' = IF runCount[d] = 1
                         THEN [firstRun EXCEPT ![d] = Snapshot(d, points, chunkRows')]
                         ELSE firstRun
        /\ UNCHANGED faults
     \/ /\ CommitRaises(d)
        /\ run' = [run EXCEPT ![d] =
                     [@ EXCEPT !.pc = "failing", !.raised = "final",
                               !.mem = MarkFailed(@, "final"), !.failedTx = TRUE]]
        /\ UNCHANGED <<docs, chunkRows, firstRun>>
  /\ UNCHANGED <<points, collection, qdrantClient, files, nextId, del, runCount,
                 reindexJobs>>

\* The commit of the except block, then `raise`. When the commit itself raises, its
\* exception is the one that leaves the task.
RunHandlerCommit(d) ==
  /\ run[d].pc = "failing"
  /\ \/ /\ CanCommit(d)
        /\ docs' = [docs EXCEPT ![d] = run[d].mem]
        /\ chunkRows' = chunkRows \cup run[d].pending
        /\ run' = [run EXCEPT ![d] = [@ EXCEPT !.pc = "done", !.pending = {},
                                               !.propagated = run[d].raised]]
        /\ UNCHANGED faults
     \/ /\ CommitRaises(d)
        /\ run' = [run EXCEPT ![d] =
                     [@ EXCEPT !.pc = "done", !.propagated = "handler_commit",
                               !.failedTx = TRUE]]
        /\ UNCHANGED <<docs, chunkRows>>
  /\ UNCHANGED <<points, collection, qdrantClient, files, nextId, del, runCount,
                 firstRun, reindexJobs>>

----------------------------------------------------------------------------
(* delete_document *)

\* select(Document): an unknown id raises DocumentNotFoundException.
DeleteSelectDocument(d) ==
  /\ del[d].pc = "idle"
  /\ del' = [del EXCEPT ![d] =
               IF docs[d].status = "absent"
                 THEN [@ EXCEPT !.pc = "done", !.result = "DocumentNotFoundException"]
                 ELSE [@ EXCEPT !.pc = "document"]]
  /\ UNCHANGED <<docs, chunkRows, points, collection, qdrantClient, files, nextId,
                 run, runCount, firstRun, reindexJobs, faults>>

\* select(Chunk).where(Chunk.document_id == document_id)
DeleteSelectChunks(d) ==
  /\ del[d].pc = "document"
  /\ del' = [del EXCEPT ![d] =
               [@ EXCEPT !.pc = "chunks",
                         !.chunks = {r \in chunkRows : r.document_id = d}]]
  /\ UNCHANGED <<docs, chunkRows, points, collection, qdrantClient, files, nextId,
                 run, runCount, firstRun, reindexJobs, faults>>

\* What a raising vector deletion does to the call: the except clause logs a warning
\* and the handler goes on.
VectorFailure(dl) ==
  [dl EXCEPT !.pc = "staged", !.vecFailed = TRUE]

\* The try block around get_qdrant_client and delete_vectors(filter_conditions=
\* {"document_id": document_id}), then db.delete of the chunks read and of the
\* document, up to the commit. c: a raising call had already set the client.
DeleteVectors(d) ==
  /\ del[d].pc = "chunks"
  /\ \/ /\ qdrantClient' = TRUE
        /\ collection' = CollectionAfterClient
        /\ points' = DeleteByFilter(points, d)
        /\ del' = [del EXCEPT ![d] = [@ EXCEPT !.pc = "staged"]]
        /\ UNCHANGED faults
     \/ /\ MayFail
        /\ faults' = faults + 1
        /\ \E c \in BOOLEAN :
             /\ qdrantClient' = (qdrantClient \/ c)
             /\ collection' = IF c THEN CollectionAfterClient ELSE collection
        /\ del' = [del EXCEPT ![d] = VectorFailure(@)]
        /\ UNCHANGED points
  /\ UNCHANGED <<docs, chunkRows, files, nextId, run, runCount, firstRun,
                 reindexJobs>>

\* The rows a committed delete removes: the chunks the call read.
RowsAfterDelete(d) == chunkRows \ del[d].chunks

\* Where the call stands when it reaches db.commit(): behind the try block of the
\* vector deletion, whether that deleted or raised.
CommitBeforeVectors(d) == del[d].pc \in {"chunks", "staged"}
AtCommit(d) == del[d].pc = "staged"

\* db.commit(): the DELETEs of the chunks read and of the Document row, in one
\* transaction. A commit that raises leaves the rows and ends the call with the error.
DeleteCommit(d) ==
  /\ AtCommit(d)
  /\ \/ /\ chunkRows' = RowsAfterDelete(d)
        /\ docs' = [docs EXCEPT ![d] = NoRow]
        /\ del' = [del EXCEPT ![d] = [@ EXCEPT !.pc = "done", !.result = "success"]]
        /\ UNCHANGED faults
     \/ /\ MayFail
        /\ faults' = faults + 1
        /\ del' = [del EXCEPT ![d] = [@ EXCEPT !.pc = "done", !.result = "commit_error"]]
        /\ UNCHANGED <<docs, chunkRows>>
  /\ UNCHANGED <<points, collection, qdrantClient, files, nextId, run, runCount,
                 firstRun, reindexJobs>>

----------------------------------------------------------------------------
(* reindex_documents *)

\* The runs POST /index schedules: none (documents_queued=0).
RequeueFailed == {d \in DocIds : docs[d].status = FAILED /\ run[d].pc = "done"}
ReindexQueued == {}

reindex_documents ==
  /\ reindexJobs < MaxReindex
  /\ reindexJobs' = reindexJobs + 1
  /\ run' = [d \in DocIds |->
               IF d \in ReindexQueued THEN [IdleRun EXCEPT !.pc = "scheduled"] ELSE run[d]]
  /\ runCount' = [d \in DocIds |->
                    IF d \in ReindexQueued THEN runCount[d] + 1 ELSE runCount[d]]
  /\ UNCHANGED <<docs, chunkRows, points, collection, qdrantClient, files, nextId,
                 del, firstRun, faults>>

----------------------------------------------------------------------------
(* A second call of process_document_background(document_id, ...) *)

MaxRuns == 2

Rerun(d) ==
  /\ run[d].pc = "done"
  /\ runCount[d] < MaxRuns
  /\ run' = [run EXCEPT ![d] = [IdleRun EXCEPT !.pc = "scheduled"]]
  /\ runCount' = [runCount EXCEPT ![d] = @ + 1]
  /\ UNCHANGED <<docs, chunkRows, points, collection, qdrantClient, files, nextId,
                 del, firstRun, reindexJobs, faults>>

----------------------------------------------------------------------------
(* CacheService *)

MaxTime == 2
MaxTtl == 1

default_ttl == 3600

CacheKeys == {"query:a", "query:b"}

\* Python values handed to set: a dict, a tuple (which serializes as a list) and a
\* set (which does not serialize). "None" is the miss value of get.
PyValues == {"obj", "tuple", "set"}
JsonValues == {"obj", "list"}

\* json.dumps(value); "TypeError" when the value does not serialize.
Dumps(v) ==
  CASE v = "obj" -> "{\"answer\": \"x\"}"
    [] v \in {"list", "tuple"} -> "[1, 2]"
    [] OTHER -> "TypeError"

\* json.loads(serialized)
Loads(s) ==
  CASE s = "{\"answer\": \"x\"}" -> "obj"
    [] s = "[1, 2]" -> "list"
    [] OTHER -> "JSONDecodeError"

NoEntry == [val |-> "None", exp |-> 0]
NoSet == [set |-> FALSE, v |-> "None", given |-> FALSE, ttl |-> 0, at |-> 0]
NoCall == [op |-> "None", key |-> "None", result |-> "None", degraded |-> "no",
           at |-> 0]

\* redis.get(key): "raise" when the store fails, None for a missing or expired key.
RedisGet(key) ==
  IF ~storeUp THEN "raise"
  ELSE IF store[key] # NoEntry /\ now < store[key].exp THEN store[key].val
  ELSE "None"

\* CacheService.get
GetUncaught(key) ==
  IF ~redis THEN "None"
  ELSE LET value == RedisGet(key) IN
       IF value = "raise" THEN "raised"
       ELSE IF value # "None" THEN Loads(value)
       ELSE "None"
Get(key) ==
  IF ~redis THEN "None"
  ELSE LET value == RedisGet(key) IN
       IF value = "raise" THEN "None"
       ELSE IF value # "None" THEN Loads(value)
       ELSE "None"

\* ttl = ttl or self.default_ttl
EffectiveTtl(given, ttl) == IF given /\ ttl # 0 THEN ttl ELSE default_ttl

\* CacheService.set: what it returns.
SetResult(value) ==
  IF ~redis THEN "False"
  ELSE IF Dumps(value) = "TypeError" THEN "False"
  ELSE IF ~storeUp THEN "False"
  ELSE "True"

\* CacheService.delete: what it returns.
DeleteResult == IF redis /\ storeUp THEN "True" ELSE "False"

\* Why a call cannot be served: the service was never connected (or its connection
\* attempt failed), or the store fails during the call.
Degraded ==
  IF ~redis THEN "not_connected" ELSE IF ~storeUp THEN "store_failed" ELSE "no"

\* CacheService.connect: a failed connection or ping leaves self.redis None.
CacheConnect ==
  /\ redis' = storeUp
  /\ UNCHANGED <<storeUp, store, now, lastSet, cacheRes>>

CacheGet ==
  \E key \in CacheKeys :
    /\ cacheRes' = [op |-> "get", key |-> key, result |-> Get(key),
                    degraded |-> Degraded, at |-> now]
    /\ UNCHANGED <<redis, storeUp, store, now, lastSet>>

CacheSet ==
  \E key \in CacheKeys, value \in PyValues, given \in BOOLEAN, ttl \in 0..MaxTtl :
    /\ ~given => ttl = 0
    /\ cacheRes' = [op |-> "set", key |-> key, result |-> SetResult(value),
                    degraded |-> Degraded, at |-> now]
    /\ IF SetResult(value) = "True"
         THEN /\ store' = [store EXCEPT ![key] =
                             [val |-> Dumps(value), exp |-> now + EffectiveTtl(given, ttl)]]
              /\ lastSet' = [lastSet EXCEPT ![key] =
                               [set |-> TRUE, v |-> value, given |-> given,
                                ttl |-> ttl, at |-> now]]
         ELSE UNCHANGED <<store, lastSet>>
    /\ UNCHANGED <<redis, storeUp, now>>

CacheDelete ==
  \E key \in CacheKeys :
    /\ cacheRes' = [op |-> "delete", key |-> key, result |-> DeleteResult,
                    degraded |-> Degraded, at |-> now]
    /\ IF DeleteResult = "True"
         THEN /\ store' = [store EXCEPT ![key] = NoEntry]
              /\ lastSet' = [lastSet EXCEPT ![key] = NoSet]
         ELSE UNCHANGED <<store, lastSet>>
    /\ UNCHANGED <<redis, storeUp, now>>

\* The cache store goes down or comes back; its keys survive the outage.
StoreOutage ==
  /\ storeUp' = ~storeUp
  /\ UNCHANGED <<redis, store, now, lastSet, cacheRes>>

\* One second passes.
Tick ==
  /\ now < MaxTime
  /\ now' = now + 1
  /\ UNCHANGED <<redis, storeUp, store, lastSet, cacheRes>>

InitCache ==
  /\ redis = FALSE
  /\ storeUp \in BOOLEAN
  /\ store = [k \in CacheKeys |-> NoEntry]
  /\ now = 0
  /\ lastSet = [k \in CacheKeys |-> NoSet]
  /\ cacheRes = NoCall

----------------------------------------------------------------------------
(* EmbeddingService *)

MaxTexts == 2

\* stop_after_attempt(3)
StopAfterAttemptOneMore == 3 + 1
StopAfterAttempt == 3

Texts == {"", " ", "refund policy", "shipping"}

\* text is blank: `not text or not text.strip()`
Blank(t) == t = "" \/ t = " "

\* The vector the provider returns for a prompt.
Embedding(t) == <<"embedding", t>>

EMBEDDING_BATCH_SIZE == 32

\* batch_size = batch_size or settings.EMBEDDING_BATCH_SIZE; 0 stands for None.
BatchSize(bs) == IF bs # 0 THEN bs ELSE EMBEDDING_BATCH_SIZE

\* texts[a:b], as the positions a+1..b of the list, in the order the inner loop
\* visits them.
BatchReversed(a, b) == [k \in 1..(b - a) |-> b - k + 1]
Batch(a, b) == [k \in 1..(b - a) |-> a + k]

\* The positions of texts in the order generate_embeddings_batch embeds them:
\* for i in range(0, len(texts), batch_size): for text in texts[i:i + batch_size].
RECURSIVE BatchOrder(_, _, _)
BatchOrder(i, n, bs) ==
  IF i >= n THEN <<>>
  ELSE Batch(i, IF i + bs < n THEN i + bs ELSE n) \o BatchOrder(i + bs, n, bs)

NoEmbCall == [text |-> "", log |-> <<>>, result |-> "None"]
IdleEmb == [pc |-> "idle", texts |-> <<>>, queue |-> <<>>, i |-> 0, out |-> <<>>,
            log |-> <<>>, sent |-> {}, calls |-> 0, sleeps |-> 0, result |-> "None",
            last |-> NoEmbCall]

InitEmbed == emb = IdleEmb

\* generate_embeddings_batch(texts): an empty list returns [] at once.
EmbedBatch ==
  /\ emb.pc = "idle"
  /\ \E n \in 0..MaxTexts, bs \in 0..MaxTexts : \E texts \in [1..n -> Texts] :
       emb' = IF n = 0
                THEN [IdleEmb EXCEPT !.pc = "done", !.result = "returned"]
                ELSE [IdleEmb EXCEPT !.pc = "call", !.texts = texts, !.i = 1,
                                     !.queue = BatchOrder(0, n, BatchSize(bs))]

\* How one attempt on a text ends, r being what the provider does when asked: a
\* blank text raises before the provider is asked; an empty response and a provider
\* error both end as EmbeddingException.
AttemptOutcome(text, r) ==
  IF Blank(text) THEN "blank" ELSE r

\* One attempt of generate_embedding on the text the batch loop has reached, under
\* tenacity's retry.
EmbedAttempt ==
  /\ emb.pc = "call"
  /\ \E r \in {"embedding", "empty", "error"} :
       LET text == emb.texts[emb.queue[emb.i]]
           o == AttemptOutcome(text, r)
           log == Append(emb.log, o)
           calls == IF o = "blank" THEN emb.calls ELSE emb.calls + 1
           sent == IF o = "blank" THEN emb.sent ELSE emb.sent \cup {emb.queue[emb.i]}
       IN
       /\ Blank(text) => r = "error"
       /\ emb' =
            IF o = "embedding"
              THEN [emb EXCEPT !.pc = IF emb.i = Len(emb.queue) THEN "done" ELSE "call",
                               !.i = IF emb.i = Len(emb.queue) THEN @ ELSE @ + 1,
                               !.calls = calls, !.log = <<>>, !.sent = sent,
                               !.out = Append(@, Embedding(text)),
                               !.result = IF emb.i = Len(emb.queue)
                                            THEN "returned" ELSE "None",
                               !.last = [text |-> text, log |-> log,
                                         result |-> Embedding(text)]]
              ELSE IF Len(log) >= StopAfterAttempt
                     THEN [emb EXCEPT !.pc = "done", !.calls = calls, !.log = <<>>,
                                      !.sent = sent,
                                      !.out = <<>>, !.result = "EmbeddingException",
                                      !.last = [text |-> text, log |-> log,
                                                result |-> "EmbeddingException"]]
                     ELSE [emb EXCEPT !.pc = "backoff", !.calls = calls, !.log = log,
                                      !.sent = sent]

\* wait_exponential between two attempts: a blocking sleep.
EmbedBackoff ==
  /\ emb.pc = "backoff"
  /\ emb' = [emb EXCEPT !.pc = "call", !.sleeps = @ + 1]

\* The caller has its answer; the service is ready for the next call.
EmbedReturn ==
  /\ emb.pc = "done"
  /\ emb' = IdleEmb

----------------------------------------------------------------------------
(* VectorStoreService *)

MaxLen == 2

PointIds == {"a", "b"}
Vectors == {"v1", "v2"}
Payloads == {"p1", "p2"}

\* Lists of at most MaxLen elements of S.
Lists(S) == UNION {[1..n -> S] : n \in 0..MaxLen}

\* dimension = dimension or settings.EMBEDDING_DIMENSION; 0 stands for None.
Dimension(dim) == IF dim # 0 THEN dim ELSE EMBEDDING_DIMENSION

\* self.collection_name not in collection_names
AlwaysMissing(coll) == TRUE
CollectionMissing(coll) == coll = 0

NoIds == <<"None">>

\* ids = [str(uuid.uuid4()) for _ in vectors] when ids is None: as many as vectors.
\* The fresh ids are left out of the model: such a call stores nothing under the
\* caller's ids.
IdsGiven(ids) == ids # NoIds

\* The two length checks of upsert_vectors; with ids None the generated list has
\* the length of vectors.
ShapeOkIdsUnchecked(ids, vectors, payloads) == Len(vectors) = Len(payloads)
ShapeOk(ids, vectors, payloads) ==
  /\ Len(vectors) = Len(payloads)
  /\ IdsGiven(ids) => Len(ids) = Len(vectors)

Shortest(ids, vectors, payloads) ==
  LET m == IF Len(vectors) < Len(payloads) THEN Len(vectors) ELSE Len(payloads)
  IN IF Len(ids) < m THEN Len(ids) ELSE m

\* [PointStruct(id, vector, payload) for ... in zip(ids, vectors, payloads)]
PointStructs(ids, vectors, payloads) ==
  [k \in 1..Shortest(ids, vectors, payloads) |->
     [id |-> ids[k], vector |-> vectors[k], payload |-> payloads[k]]]

\* client.upsert(points=[...]): the points are written in list order.
RECURSIVE UpsertList(_, _)
UpsertList(ps, list) ==
  IF list = <<>> THEN ps
  ELSE UpsertList(Upsert(ps, {Head(list)}), Tail(list))

\* The last point of the list stored under id, if any.
LastUnder(list, id, old) ==
  LET at == {k \in 1..Len(list) : list[k].id = id} IN
  IF at = {} THEN old
  ELSE LET k == CHOOSE k \in at : \A j \in at : j <= k
       IN [set |-> TRUE, vector |-> list[k].vector, payload |-> list[k].payload]

NoUpsert == [set |-> FALSE, vector |-> "None", payload |-> "None"]
NoVsCall == [op |-> "None", result |-> "None", cause |-> "None", storeCalls |-> 0,
             creates |-> 0, outage |-> FALSE, unequal |-> FALSE,
             replaced |-> FALSE, turn |-> FALSE]

\* How a call ended, with the number of store calls and create_collection calls it
\* issued and whether the store was out during it; turn flips with every call.
VsResult(op, result, cause, storeCalls, creates, outage) ==
  [op |-> op, result |-> result, cause |-> cause, storeCalls |-> storeCalls,
   creates |-> creates, outage |-> outage, unequal |-> FALSE,
   replaced |-> FALSE, turn |-> ~vsRes.turn]

InitVec ==
  /\ vsClient = FALSE
  /\ vsCollection = 0
  /\ vsPoints = {}
  /\ vsLast = [id \in PointIds |-> NoUpsert]
  /\ vsRes = NoVsCall

\* set_client / get_vector_store_service(client)
VsSetClient ==
  /\ ~vsClient
  /\ vsClient' = TRUE
  /\ UNCHANGED <<vsCollection, vsPoints, vsLast, vsRes>>

\* ensure_collection_exists(dimension); out: the store call that meets an outage.
\* Creating a collection that exists is refused by the store.
VsEnsure ==
  \E dim \in {0, 2}, out \in {"none", "get_collections", "create_collection"} :
    /\ IF ~vsClient
         THEN /\ out = "none"
              /\ vsRes' = VsResult("ensure", "VectorStoreException", "no_client", 0, 0,
                                   FALSE)
              /\ UNCHANGED vsCollection
         ELSE IF out = "get_collections"
           THEN /\ vsRes' = VsResult("ensure", "VectorStoreException", "store", 1, 0,
                                     TRUE)
                /\ UNCHANGED vsCollection
           ELSE IF ~CollectionMissing(vsCollection)
             THEN /\ out = "none"
                  /\ vsRes' = VsResult("ensure", "ok", "None", 1, 0, FALSE)
                  /\ UNCHANGED vsCollection
             ELSE IF out = "none" /\ vsCollection = 0
               THEN /\ vsRes' = VsResult("ensure", "ok", "None", 2, 1, FALSE)
                    /\ vsCollection' = Dimension(dim)
               ELSE /\ vsRes' = VsResult("ensure", "VectorStoreException", "store", 2, 1,
                                         out # "none")
                    /\ UNCHANGED vsCollection
    /\ UNCHANGED <<vsClient, vsPoints, vsLast>>

\* upsert_vectors(vectors, payloads, ids); out: the store meets an outage. An upsert
\* into an absent collection is refused by the store.
VsUpsert ==
  \E ids \in Lists(PointIds) \cup {NoIds}, vectors \in Lists(Vectors),
     payloads \in Lists(Payloads), out \in BOOLEAN :
    LET list == PointStructs(ids, vectors, payloads)
        unequal == \/ Len(vectors) # Len(payloads)
                   \/ IdsGiven(ids) /\ Len(ids) # Len(vectors)
        replaced == \E k \in 1..Len(list) : \E q \in vsPoints :
                      q.id = list[k].id /\ q # list[k]
    IN
    /\ IF ~vsClient
         THEN /\ ~out
              /\ vsRes' = [VsResult("upsert", "VectorStoreException", "no_client", 0, 0,
                                    FALSE) EXCEPT !.unequal = unequal]
              /\ UNCHANGED <<vsPoints, vsLast>>
         ELSE IF ~ShapeOk(ids, vectors, payloads)
           THEN /\ ~out
                /\ vsRes' = [VsResult("upsert", "VectorStoreException", "shape", 0, 0,
                                      FALSE) EXCEPT !.unequal = unequal]
                /\ UNCHANGED <<vsPoints, vsLast>>
           ELSE IF out \/ vsCollection = 0
             THEN /\ vsRes' = [VsResult("upsert", "VectorStoreException", "store", 1, 0,
                                        out) EXCEPT !.unequal = unequal]
                  /\ UNCHANGED <<vsPoints, vsLast>>
             ELSE /\ vsRes' = [VsResult("upsert", "ok", "None", 1, 0, FALSE)
                                 EXCEPT !.unequal = unequal,
                                        !.replaced = IdsGiven(ids) /\ replaced]
                  /\ IF IdsGiven(ids)
                       THEN /\ vsPoints' = UpsertList(vsPoints, list)
                            /\ vsLast' = [id \in PointIds |-> LastUnder(list, id, vsLast[id])]
                       ELSE UNCHANGED <<vsPoints, vsLast>>
    /\ UNCHANGED <<vsClient, vsCollection>>

----------------------------------------------------------------------------
(* HybridRetrievalService and RerankerService *)

MaxCands == 2
MaxTopK == 3

\* Scores are floats; s stands for the score s / Scale.
Scale == 1000
Mul(a, b) == (a * b) \div Scale
Div(a, b) == (a * Scale) \div b
Min(a, b) == IF a < b THEN a ELSE b
Max(a, b) == IF a > b THEN a ELSE b

VECTOR_WEIGHT == 700
BM25_WEIGHT == 300
RETRIEVAL_TOP_K == 20
RERANK_TOP_K == 5
USE_HYBRID_SEARCH == TRUE
vector_weight == 700
overlap_weight == 200
length_weight == 100
optimal_length == 500

Scores == {0, 500, 1000}

\* Chunk.content by chunk id: the tokens content.split() yields (as a set) and
\* their number.
ChunkIds == {"a", "b", "c", "d", "e"}
Content ==
  [id \in ChunkIds |->
     CASE id = "a" -> [tokens |-> {"Refund", "policy"}, words |-> 49]
       [] id = "b" -> [tokens |-> {"refund", "shipping"}, words |-> 50]
       [] id = "c" -> [tokens |-> {"shipping"}, words |-> 500]
       [] id = "d" -> [tokens |-> {"policy", "refund"}, words |-> 1000]
       [] id = "e" -> [tokens |-> {"Shipping"}, words |-> 1001]]

\* query.split(), as a set
Queries == {{}, {"refund"}, {"Refund", "Policy"}}

\* str.lower
Lower(t) ==
  CASE t = "Refund" -> "refund"
    [] t = "Policy" -> "policy"
    [] t = "Shipping" -> "shipping"
    [] OTHER -> t

\* set(text.lower().split())
Terms(tokens) == {Lower(t) : t \in tokens}

\* A search result {"id", "score", "payload"} of the chunk id.
Result(id, score, source) ==
  [id |-> id, score |-> score,
   payload |-> [chunk_id |-> id, content |-> Content[id], source |-> source]]

\* Lists of at most MaxCands results over the chunks of S, no chunk twice.
ResultLists(S, source) ==
  {[k \in 1..Len(ids) |-> Result(ids[k], sc[k], source)] :
     <<ids, sc>> \in UNION {{<<i, c>> \in [1..n -> S] \X [1..n -> Scores] :
                               \A x \in 1..n, y \in 1..n : x # y => i[x] # i[y]} :
                            n \in 0..MaxCands}}

\* list[:k]
Slice(list, k) ==
  IF k >= 0 THEN SubSeq(list, 1, Min(k, Len(list)))
  ELSE SubSeq(list, 1, Max(0, Len(list) + k))

\* list.sort(key=..., reverse=True): stable, by descending key; keys[i] is the key
\* of list[i].
RECURSIVE InsertDesc(_, _, _)
InsertDesc(i, order, keys) ==
  IF order = <<>> THEN <<i>>
  ELSE IF keys[Head(order)] >= keys[i]
    THEN <<Head(order)>> \o InsertDesc(i, Tail(order), keys)
    ELSE <<i>> \o order

RECURSIVE SortOrder(_, _)
SortOrder(n, keys) ==
  IF n = 0 THEN <<>> ELSE InsertDesc(n, SortOrder(n - 1, keys), keys)

SortDesc(list, keys) ==
  LET order == SortOrder(Len(list), keys)
  IN [k \in 1..Len(list) |-> list[order[k]]]

\* RerankerService.calculate_query_overlap
calculate_query_overlap(query, document) ==
  LET query_terms == Terms(query)
      doc_terms == Terms(document.tokens)
  IN IF query_terms = {} THEN 0
     ELSE Div(Cardinality(query_terms \cap doc_terms), Cardinality(query_terms))

\* calculate_length_penalty: if doc_length > optimal_length * 2
TooLongInclusive(doc_length) == doc_length >= optimal_length * 2
TooLong(doc_length) == doc_length > optimal_length * 2

\* RerankerService.calculate_length_penalty
calculate_length_penalty(document) ==
  LET doc_length == document.words
      length_ratio == Div(Min(doc_length, optimal_length), optimal_length)
  IN IF doc_length < 50 THEN 500
     ELSE Min(IF TooLong(doc_length) THEN Mul(length_ratio, 800) ELSE length_ratio,
              Scale)

\* rerank: the RankedResult of one result
RankedResult(query, result) ==
  LET content == result.payload.content
      overlap_score == calculate_query_overlap(query, content)
      length_score == calculate_length_penalty(content)
  IN [id |-> result.id,
      content |-> content,
      original_score |-> result.score,
      rerank_score |-> overlap_score,
      final_score |-> Mul(vector_weight, result.score)
                        + Mul(overlap_weight, overlap_score)
                        + Mul(length_weight, length_score),
      metadata |-> result.payload]

Returned(out) == [result |-> "returned", out |-> out]
Raised(exc) == [result |-> exc, out |-> <<>>]

\* RerankerService.rerank; the log line after the slice reads top_results[0].
rerank(query, results, top_k) ==
  IF results = <<>> THEN Returned(<<>>)
  ELSE LET ranked_results == [k \in 1..Len(results) |-> RankedResult(query, results[k])]
           sorted == SortDesc(ranked_results,
                              [k \in 1..Len(results) |-> ranked_results[k].final_score])
           top_results == Slice(sorted, top_k)
       IN IF Len(top_results) = 0 THEN Raised("IndexError") ELSE Returned(top_results)

\* _combine_results.normalize_scores
MaxScore(results) ==
  CHOOSE m \in {results[k].score : k \in 1..Len(results)} :
    \A k \in 1..Len(results) : results[k].score <= m

normalize_scores(results) ==
  IF results = <<>> THEN results
  ELSE IF MaxScore(results) = 0 THEN results
  ELSE [k \in 1..Len(results) |->
          results[k] @@ [normalized_score |-> Div(results[k].score, MaxScore(results))]]

\* result.get("normalized_score", result["score"])
RawScore(result) == result.score
NormalizedOrScore(result) ==
  IF "normalized_score" \in DOMAIN result THEN result.normalized_score ELSE result.score

\* combined: the dict of _combine_results as the list of its values in insertion order
IndexOf(combined, id) ==
  IF \E k \in 1..Len(combined) : combined[k].id = id
  THEN CHOOSE k \in 1..Len(combined) : combined[k].id = id
  ELSE 0

\* for result in vector_results: combined[result_id] = {...}
PutVector(combined, result, vw) ==
  LET entry == [id |-> result.id, score |-> Mul(vw, NormalizedOrScore(result)),
                payload |-> result.payload]
      k == IndexOf(combined, result.id)
  IN IF k = 0 THEN Append(combined, entry) ELSE [combined EXCEPT ![k] = entry]

\* for result in bm25_results: add to the entry of the id, or make a new entry
PutBm25Overwriting(combined, result, bw) ==
  LET entry == [id |-> result.id, score |-> Mul(bw, NormalizedOrScore(result)),
                payload |-> result.payload]
      k == IndexOf(combined, result.id)
  IN IF k = 0 THEN Append(combined, entry) ELSE [combined EXCEPT ![k] = entry]

PutBm25(combined, result, bw) ==
  LET k == IndexOf(combined, result.id)
  IN IF k # 0
     THEN [combined EXCEPT ![k].score = @ + Mul(bw, NormalizedOrScore(result))]
     ELSE Append(combined, [id |-> result.id,
                            score |-> Mul(bw, NormalizedOrScore(result)),
                            payload |-> result.payload])

RECURSIVE PutVectors(_, _, _)
PutVectors(combined, results, vw) ==
  IF results = <<>> THEN combined
  ELSE PutVectors(PutVector(combined, Head(results), vw), Tail(results), vw)

RECURSIVE PutBm25s(_, _, _)
PutBm25s(combined, results, bw) ==
  IF results = <<>> THEN combined
  ELSE PutBm25s(PutBm25(combined, Head(results), bw), Tail(results), bw)

\* HybridRetrievalService._combine_results
combine_results(vector_results, bm25_results, vw, bw) ==
  PutBm25s(PutVectors(<<>>, normalize_scores(vector_results), vw),
           normalize_scores(bm25_results), bw)

\* HybridRetrievalService._bm25_search: rows are the chunks selected, scores the
\* BM25Okapi score of each, failed a failure of the select or of the scoring.
bm25_search(rows, scores, top_k, failed) ==
  IF failed THEN <<>>
  ELSE IF rows = <<>> THEN <<>>
  ELSE LET results == SelectSeq([k \in 1..Len(rows) |-> Result(rows[k], scores[k], "bm25")],
                                LAMBDA r : r.score > 0)
       IN Slice(SortDesc(results, [k \in 1..Len(results) |-> results[k].score]), top_k)

\* HybridRetrievalService._format_results
format_results(ranked_results) ==
  [k \in 1..Len(ranked_results) |->
     [chunk_id |-> ranked_results[k].id,
      content |-> ranked_results[k].content,
      score |-> ranked_results[k].final_score,
      original_score |-> ranked_results[k].original_score,
      metadata |-> ranked_results[k].metadata]]

\* retrieve: top_k = top_k or settings.RERANK_TOP_K
TopK(top_k) == IF top_k # 0 THEN top_k ELSE RERANK_TOP_K

\* retrieve: use_hybrid if use_hybrid is not None else settings.USE_HYBRID_SEARCH
UseHybrid(use_hybrid) ==
  IF use_hybrid # "None" THEN use_hybrid = "True" ELSE USE_HYBRID_SEARCH

NoRetCall ==
  [op |-> "None", query |-> {}, top_k |-> 0, given |-> FALSE, hybrid |-> FALSE,
   vw |-> 0, bw |-> 0, vector |-> <<>>, bm25 |-> <<>>, cands |-> <<>>,
   failed |-> "none", result |-> "None", out |-> <<>>]

InitRet == ret = NoRetCall

\* _combine_results(vector_results, bm25_results, vector_weight, bm25_weight)
Combine ==
  /\ ret.op = "None"
  /\ \E vector_results \in ResultLists({"a", "b", "c"}, "vector"),
        bm25_results \in ResultLists({"a", "b", "c"}, "bm25"),
        w \in {<<VECTOR_WEIGHT, BM25_WEIGHT>>, <<VECTOR_WEIGHT, 0>>} :
       ret' = [NoRetCall EXCEPT !.op = "combine", !.vw = w[1], !.bw = w[2],
                                !.vector = vector_results, !.bm25 = bm25_results,
                                !.result = "returned",
                                !.out = combine_results(vector_results, bm25_results,
                                                        w[1], w[2])]

\* rerank(query, results, top_k)
Rerank ==
  /\ ret.op = "None"
  /\ \E query \in Queries, results \in ResultLists(ChunkIds, "vector"),
        top_k \in 0..MaxTopK :
       LET r == rerank(query, results, top_k)
       IN ret' = [NoRetCall EXCEPT !.op = "rerank", !.query = query, !.top_k = top_k,
                                   !.given = TRUE, !.cands = results,
                                   !.result = r.result, !.out = r.out]

\* search_vectors returns the points found by descending score.
SearchResults ==
  {l \in ResultLists({"a", "b", "c"}, "vector") :
     \A k \in 1..(Len(l) - 1) : l[k].score >= l[k + 1].score}

\* HybridRetrievalService.retrieve, with _vector_retrieve and _hybrid_retrieve.
\* found: what search_vectors finds; scored: the chunks the select of _bm25_search
\* yields, each with its BM25Okapi score; fails: the provider operation that fails.
\* generate_embedding raises for a query without a term.
retrieve(query, top_k, given, use_hybrid, found, scored, fails) ==
  LET k == TopK(top_k)
      hybrid == UseHybrid(use_hybrid)
      call == [NoRetCall EXCEPT !.op = "retrieve", !.query = query, !.top_k = top_k,
                                !.given = given, !.hybrid = hybrid]
      bm25_results == bm25_search([i \in 1..Len(scored) |-> scored[i].id],
                                  [i \in 1..Len(scored) |-> scored[i].score],
                                  RETRIEVAL_TOP_K, fails = "lexical")
      results == IF hybrid
                 THEN combine_results(found, bm25_results, VECTOR_WEIGHT, BM25_WEIGHT)
                 ELSE found
      ranked == rerank(query, results, k)
  IN IF fails = "embedding" \/ query = {}
       THEN [call EXCEPT !.failed = "embedding", !.result = "EmbeddingException"]
     ELSE IF fails = "search"
       THEN [call EXCEPT !.failed = "search", !.result = "VectorStoreException"]
     ELSE [call EXCEPT !.vector = found,
                       !.bm25 = IF hybrid THEN bm25_results ELSE <<>>,
                       !.cands = results,
                       !.failed = IF hybrid THEN fails ELSE "none",
                       !.result = ranked.result,
                       !.out = format_results(ranked.out)]

Retrieve ==
  /\ ret.op = "None"
  /\ \E query \in Queries, given \in BOOLEAN, top_k \in 0..MaxTopK,
        use_hybrid \in {"None", "True", "False"}, found \in SearchResults,
        scored \in ResultLists({"a", "b", "c"}, "bm25"),
        fails \in {"none", "embedding", "search", "lexical"} :
       /\ ~given => top_k = 0
       /\ ret' = retrieve(query, top_k, given, use_hybrid, found, scored, fails)

\* The caller has taken the outcome of the call.
RetTaken ==
  /\ ret.op # "None"
  /\ ret' = NoRetCall

----------------------------------------------------------------------------
(* The event loop of a worker process *)

\* The coroutines: process_document_background of one document, a query in
\* _hybrid_retrieve, and the handler of any other request (list_documents).
Tasks == {"run", "query", "request"}

\* A coroutine suspended at an await (or not yet started), ended, or inside a
\* synchronous call to a provider.
AtAwait == {"pending", "select", "commit", "final_commit", "handler_commit"}
Ended == {"done", "failed"}
InCall == {"embedding", "backoff", "upserting", "searching", "scoring"}

InitLoop ==
  /\ task = [t \in Tasks |-> [pc |-> "pending", attempt |-> 0]]
  /\ thread = "idle"

\* The loop resumes a suspended coroutine when its thread is idle; a coroutine
\* keeps the thread until its next await.
Resumable(t) == thread = "idle" /\ task[t].pc \in AtAwait

\* process_document_background: to `await db.execute(select ...)`, then to the
\* `await db.commit()` of the PROCESSING status.
RunAwaits ==
  /\ Resumable("run")
  /\ task["run"].pc \in {"pending", "select"}
  /\ task' = [task EXCEPT !["run"].pc = IF @ = "pending" THEN "select" ELSE "commit"]
  /\ UNCHANGED thread

\* process_document_background after that commit: parse, chunk, and the call of
\* generate_embeddings_batch, all on the thread of the loop.
RunEmbed ==
  /\ Resumable("run")
  /\ task["run"].pc = "commit"
  /\ task' = [task EXCEPT !["run"] = [pc |-> "embedding", attempt |-> 1]]
  /\ thread' = "run"

\* _hybrid_retrieve: the call of generate_embedding(query)
QueryEmbed ==
  /\ Resumable("query")
  /\ task["query"].pc = "pending"
  /\ task' = [task EXCEPT !["query"] = [pc |-> "embedding", attempt |-> 1]]
  /\ thread' = "query"

\* generate_embedding: the provider answers the attempt, or fails it; a failed
\* attempt is followed by the wait of tenacity or, after the last one, raises into
\* the except block of the run (await db.commit()) or out of the query.
EmbedAnswers(t) ==
  /\ thread = t
  /\ task[t].pc = "embedding"
  /\ \E ok \in BOOLEAN :
       IF ok
         THEN /\ task' = [task EXCEPT ![t].pc = IF t = "run" THEN "upserting"
                                                ELSE "searching"]
              /\ UNCHANGED thread
       ELSE IF task[t].attempt < StopAfterAttempt
         THEN /\ task' = [task EXCEPT ![t].pc = "backoff"]
              /\ UNCHANGED thread
       ELSE /\ task' = [task EXCEPT ![t].pc = IF t = "run" THEN "handler_commit"
                                              ELSE "failed"]
            /\ thread' = "idle"

\* tenacity, around a synchronous function: time.sleep is over, next attempt
BackoffOver(t) ==
  /\ thread = t
  /\ task[t].pc = "backoff"
  /\ task' = [task EXCEPT ![t] = [pc |-> "embedding", attempt |-> @.attempt + 1]]
  /\ UNCHANGED thread

\* The vector store answers ensure_collection_exists and upsert_vectors of the run,
\* or search_vectors of the query; the coroutine goes on to its next await:
\* db.commit() of the run, db.execute(select(Chunk)) of _bm25_search.
StoreAnswers(t) ==
  /\ thread = t
  /\ task[t].pc \in {"upserting", "searching"}
  /\ \E ok \in BOOLEAN :
       task' = [task EXCEPT ![t].pc =
                  IF t = "run" THEN (IF ok THEN "final_commit" ELSE "handler_commit")
                  ELSE (IF ok THEN "select" ELSE "failed")]
  /\ thread' = "idle"

\* _bm25_search: the select has answered; BM25Okapi scores the corpus
QueryScore ==
  /\ Resumable("query")
  /\ task["query"].pc = "select"
  /\ task' = [task EXCEPT !["query"].pc = "scoring"]
  /\ thread' = "query"

\* _hybrid_retrieve: scoring over; _combine_results, rerank, return
QueryReturns ==
  /\ thread = "query"
  /\ task["query"].pc = "scoring"
  /\ task' = [task EXCEPT !["query"].pc = "done"]
  /\ thread' = "idle"

\* process_document_background: its last commit has answered
RunCommits ==
  /\ Resumable("run")
  /\ task["run"].pc \in {"final_commit", "handler_commit"}
  /\ task' = [task EXCEPT !["run"].pc = IF @ = "final_commit" THEN "done" ELSE "failed"]
  /\ UNCHANGED thread

\* The handler of another request runs
Request ==
  /\ Resumable("request")
  /\ task["request"].pc = "pending"
  /\ task' = [task EXCEPT !["request"].pc = "done"]
  /\ UNCHANGED thread

\* A step of the coroutine t
TaskStep(t) ==
  \/ t = "run" /\ (RunAwaits \/ RunEmbed \/ EmbedAnswers("run") \/ BackoffOver("run")
                    \/ StoreAnswers("run") \/ RunCommits)
  \/ t = "query" /\ (QueryEmbed \/ EmbedAnswers("query") \/ BackoffOver("query")
                      \/ StoreAnswers("query") \/ QueryScore \/ QueryReturns)
  \/ t = "request" /\ Request


----------------------------------------------------------------------------
(* ChunkerService.chunk_document_with_pages *)

MaxPages == 3

PageTexts == {"", " ", "alpha", "alpha beta", "gamma"}

\* str.strip() on the page texts of the model.
strip(t) == IF t = " " THEN "" ELSE t

\* splitter.split_text(text): the pieces of the text, in order.
split_text(t) ==
  IF t = "alpha beta" THEN <<"alpha", "beta">>
  ELSE IF strip(t) = "" THEN <<>>
  ELSE <<t>>

\* chunk_text(text, metadata): nothing for blank text, else one chunk per piece
\* with its index and the count within this call; page and total_pages are the
\* page metadata chunk_document_with_pages passes in.
chunk_text(text, page, total_pages) ==
  IF text = "" \/ strip(text) = "" THEN <<>>
  ELSE LET chunks == split_text(text) IN
       [i \in 1..Len(chunks) |->
          [content |-> chunks[i], chunk_index |-> i - 1,
           total_chunks |-> Len(chunks), page |-> page, total_pages |-> total_pages]]

\* for chunk in page_chunks: chunk["global_chunk_index"] = len(all_chunks);
\* all_chunks.append(chunk)
RECURSIVE AppendPage(_, _)
AppendPage(all_chunks, page_chunks) ==
  IF page_chunks = <<>> THEN all_chunks
  ELSE AppendPage(
         Append(all_chunks,
                Head(page_chunks) @@ [global_chunk_index |-> Len(all_chunks)]),
         Tail(page_chunks))

\* The loop over enumerate(page_texts, start=1), from page page_num on.
RECURSIVE ChunkPages(_, _, _)
ChunkPages(page_texts, page_num, all_chunks) ==
  IF page_num > Len(page_texts) THEN all_chunks
  ELSE IF strip(page_texts[page_num]) = ""
    THEN ChunkPages(page_texts, page_num + 1, all_chunks)
    ELSE ChunkPages(page_texts, page_num + 1,
                    AppendPage(all_chunks,
                               chunk_text(page_texts[page_num], page_num,
                                          Len(page_texts))))

\* ... then chunk["total_chunks"] = len(all_chunks) for every chunk.
chunk_document_with_pages(page_texts) ==
  LET all_chunks == ChunkPages(page_texts, 1, <<>>) IN
  [k \in 1..Len(all_chunks) |->
     [all_chunks[k] EXCEPT !.total_chunks = Len(all_chunks)]]

NoPagedCall == [op |-> "None", page_texts |-> <<>>, out |-> <<>>]

InitPaged == paged = NoPagedCall

ChunkPaged ==
  \E n \in 0..MaxPages : \E page_texts \in [1..n -> PageTexts] :
    paged' = [op |-> "chunk_document_with_pages", page_texts |-> page_texts,
              out |-> chunk_document_with_pages(page_texts)]

\* The caller has taken the chunks.
PagedTaken ==
  /\ paged.op # "None"
  /\ paged' = NoPagedCall

----------------------------------------------------------------------------
(* retrieve with filter_conditions *)

\* The indexed chunks: the payload fields of their points, which are also the
\* columns of their Chunk rows.
Indexed == {"a", "b", "c"}
Attrs ==
  [id \in Indexed |->
     CASE id = "a" -> [document_id |-> 1, page |-> 1]
       [] id = "b" -> [document_id |-> 1, page |-> 2]
       [] id = "c" -> [document_id |-> 2, page |-> 1]]

\* filter_conditions: a dict of field == value conditions, as a set of pairs with
\* at most one value per field; the empty set stands for None.
Filters ==
  {f \in SUBSET ({"document_id", "page"} \X {1, 2}) :
     \A x \in f, y \in f : x[1] = y[1] => x = y}

\* search_vectors: Filter(must=[FieldCondition(key, MatchValue(value)) for every
\* item of filter_conditions]).
MatchesFilter(id, filter) == \A c \in filter : Attrs[id][c[1]] = c[2]

\* _bm25_search: select(Chunk), with a where clause for the key "document_id" only.
SelectedByBm25(id, filter) ==
  \A c \in filter : c[1] = "document_id" => Attrs[id].document_id = c[2]

NoSearch == [op |-> "None", filter |-> {}, top_k |-> 0, hybrid |-> FALSE,
             out |-> <<>>]

InitSearch == search = NoSearch

\* retrieve(query, db, vector_store, top_k, use_hybrid, filter_conditions):
\* found is what the filtered vector search returns, scored the selected chunks
\* with their BM25 scores.
FilteredRetrieve ==
  /\ search.op = "None"
  /\ \E filter \in Filters, use_hybrid \in {"True", "False"}, top_k \in 0..MaxTopK,
        found \in SearchResults, scored \in ResultLists(Indexed, "bm25") :
       /\ \A k \in 1..Len(found) : MatchesFilter(found[k].id, filter)
       /\ \A k \in 1..Len(scored) : SelectedByBm25(scored[k].id, filter)
       /\ LET call == retrieve({"refund"}, top_k, top_k # 0, use_hybrid, found, scored,
                               "none")
          IN search' = [op |-> "retrieve", filter |-> filter, top_k |-> top_k,
                        hybrid |-> call.hybrid,
                        out |-> [k \in 1..Len(call.out) |-> call.out[k].chunk_id]]

\* The caller has taken the records.
SearchTaken ==
  /\ search.op # "None"
  /\ search' = NoSearch

----------------------------------------------------------------------------
(* The chat endpoint, its Result Cache and delete_document *)

ChatQueries == {"refund", "shipping"}

\* What the handler hands to retrieve as vector_store_service: the qdrant
\* dependency itself (vector_store = qdrant), a QdrantClient.
vector_store == "QdrantClient"

\* The object retrieve expects: get_vector_store_service(client).
WrappedClient == "VectorStoreService"

\* retrieve calls vector_store_service.search_vectors(...): a method of
\* VectorStoreService, which a QdrantClient does not have.
HasSearchVectors(service) == service = "VectorStoreService"

NoCachedResult == [set |-> FALSE, docs |-> {}]
NoResponse == [kind |-> "None", docs |-> {}, hit |-> FALSE]

InitChat ==
  chat = [indexed |-> {}, deleted |-> {}, cache |-> [q \in ChatQueries |-> NoCachedResult],
          resp |-> NoResponse]

\* An ingestion run has indexed the chunks of d.
ChatIndexed(d) ==
  /\ d \notin chat.indexed \cup chat.deleted
  /\ chat' = [chat EXCEPT !.indexed = @ \cup {d}]

\* delete_document(d) has completed: vectors and rows of d are gone. The handler
\* makes no cache call. The responses sent before it are behind it.
ChatDeleted(d) ==
  /\ d \in chat.indexed
  /\ chat' = [chat EXCEPT !.indexed = @ \ {d}, !.deleted = @ \cup {d},
                          !.resp = NoResponse]

\* POST /chat with the query q; conv: the request carries a conversation_id. A
\* cache hit is returned as it is; otherwise the handler retrieves, answers from the
\* documents retrieved (found, among those indexed) and caches the response; an
\* exception of the retrieval leaves as LLMException.
chat_endpoint(q, conv, found) ==
  LET cached_result == chat.cache[q] IN
  IF cached_result.set /\ ~conv
    THEN [chat EXCEPT !.resp = [kind |-> "answer", docs |-> cached_result.docs,
                                hit |-> TRUE]]
  ELSE IF ~HasSearchVectors(vector_store)
    THEN [chat EXCEPT !.resp = [kind |-> "LLMException", docs |-> {}, hit |-> FALSE]]
  ELSE [chat EXCEPT !.resp = [kind |-> "answer", docs |-> found, hit |-> FALSE],
                    !.cache[q] = IF conv THEN @ ELSE [set |-> TRUE, docs |-> found]]

Chat ==
  \E q \in ChatQueries, conv \in BOOLEAN, found \in SUBSET chat.indexed :
    chat' = chat_endpoint(q, conv, found)

\* The entry of q expires (query_ttl).
ChatCacheExpires(q) ==
  /\ chat.cache[q].set
  /\ chat' = [chat EXCEPT !.cache[q] = NoCachedResult]

----------------------------------------------------------------------------
(* Step 4 of process_document_background: client, collection, upsert *)

\* Dimensions the embedding model can have: the configured one and another.
Dims == {EMBEDDING_DIMENSION, EMBEDDING_DIMENSION \div 2}

\* embedding_dim = len(embeddings[0]) if embeddings else settings.EMBEDDING_DIMENSION
embedding_dim(n, dim) == IF n > 0 THEN dim ELSE EMBEDDING_DIMENSION

\* The collection after get_qdrant_client: the first call of the process creates
\* it, when absent, at settings.EMBEDDING_DIMENSION.
ClientInitialised(client, coll) ==
  IF client \/ coll # 0 THEN coll ELSE EMBEDDING_DIMENSION

\* The collection after ensure_collection_exists(dimension): created only when
\* absent, an existing collection is left as it is.
Ensured(coll, dimension) ==
  IF CollectionMissing(coll) THEN Dimension(dimension) ELSE coll

\* The store takes a vector only into a collection of the vector's dimension.
StoreAccepts(coll, n, dim) == coll # 0 /\ (n > 0 => coll = dim)

IdleStep4 == [pc |-> "idle", client |-> FALSE, coll |-> 0, n |-> 0, dim |-> 0,
              stored |-> 0, result |-> "None", runs |-> 0]

InitStep4 == step4 = IdleStep4

\* Another request (a chat, a delete) calls get_qdrant_client between runs.
Step4OtherRequest ==
  /\ step4.pc \in {"idle", "done"}
  /\ ~step4.client
  /\ step4' = [step4 EXCEPT !.client = TRUE,
                            !.coll = ClientInitialised(step4.client, step4.coll)]

\* Step 3 has returned n embeddings of dimension dim.
Step4Start ==
  /\ step4.pc = "idle"
  /\ \E n \in 0..MaxChunks, dim \in Dims :
       step4' = [step4 EXCEPT !.pc = "client", !.n = n, !.dim = dim]

\* get_qdrant_client(); c: a raising call had already set the client.
Step4Client ==
  /\ step4.pc = "client"
  /\ \/ step4' = [step4 EXCEPT !.pc = "ensure", !.client = TRUE,
                               !.coll = ClientInitialised(step4.client, step4.coll)]
     \/ /\ ~step4.client
        /\ \E c \in BOOLEAN :
             step4' = [step4 EXCEPT !.pc = "done", !.client = c,
                                    !.result = "VectorStoreException"]

\* vector_store.ensure_collection_exists(dimension=embedding_dim)
Step4Ensure ==
  /\ step4.pc = "ensure"
  /\ \/ step4' = [step4 EXCEPT
                    !.pc = "upsert",
                    !.coll = Ensured(step4.coll, embedding_dim(step4.n, step4.dim))]
     \/ step4' = [step4 EXCEPT !.pc = "done", !.result = "VectorStoreException"]

\* vector_store.upsert_vectors(vectors=embeddings, ...)
Step4Upsert ==
  /\ step4.pc = "upsert"
  /\ \/ /\ StoreAccepts(step4.coll, step4.n, step4.dim)
        /\ step4' = [step4 EXCEPT !.pc = "done", !.result = "ok",
                                  !.stored = step4.n]
     \/ step4' = [step4 EXCEPT !.pc = "done", !.result = "VectorStoreException"]

\* The run is over; the next one starts from the client and collection it left.
Step4Next ==
  /\ step4.pc = "done"
  /\ step4.runs < MaxRuns
  /\ step4' = [step4 EXCEPT !.pc = "idle", !.n = 0, !.dim = 0, !.stored = 0,
                            !.result = "None", !.runs = @ + 1]

InitRest == InitStep4 /\ InitPaged /\ InitSearch /\ InitChat

----------------------------------------------------------------------------
(* Specifications *)

Init == InitIngest /\ faults = 0 /\ InitCache /\ storeUp /\ InitEmbed /\ InitVec /\ InitRet /\ InitLoop /\ InitRest

IngestNext ==
  \/ Upload
  \/ \E d \in DocIds : RunSelect(d) /\ UNCHANGED <<cacheVars, embedVars, vecVars, retVars, loopVars, restVars>>
  \/ \E d \in DocIds : RunCommitProcessing(d) /\ UNCHANGED <<cacheVars, embedVars, vecVars, retVars, loopVars, restVars>>
  \/ \E d \in DocIds : RunBody(d) /\ UNCHANGED <<cacheVars, embedVars, vecVars, retVars, loopVars, restVars>>
  \/ \E d \in DocIds : RunCommitFinal(d) /\ UNCHANGED <<cacheVars, embedVars, vecVars, retVars, loopVars, restVars>>
  \/ \E d \in DocIds : RunHandlerCommit(d) /\ UNCHANGED <<cacheVars, embedVars, vecVars, retVars, loopVars, restVars>>
  \/ \E d \in DocIds : DeleteSelectDocument(d) /\ UNCHANGED <<cacheVars, embedVars, vecVars, retVars, loopVars, restVars>>
  \/ \E d \in DocIds : DeleteSelectChunks(d) /\ UNCHANGED <<cacheVars, embedVars, vecVars, retVars, loopVars, restVars>>
  \/ \E d \in DocIds : DeleteVectors(d) /\ UNCHANGED <<cacheVars, embedVars, vecVars, retVars, loopVars, restVars>>
  \/ \E d \in DocIds : DeleteCommit(d) /\ UNCHANGED <<cacheVars, embedVars, vecVars, retVars, loopVars, restVars>>
  \/ reindex_documents /\ UNCHANGED <<cacheVars, embedVars, vecVars, retVars, loopVars, restVars>>

Next == IngestNext

Spec == Init /\ [][Next]_vars

\* Two runs of the same document, with stores and providers that do not fail.
InitRerun == InitIngest /\ faults = MaxFaults /\ InitCache /\ storeUp /\ InitEmbed /\ InitVec /\ InitRet /\ InitLoop /\ InitRest

RerunNext ==
  \/ IngestNext
  \/ \E d \in DocIds : Rerun(d) /\ UNCHANGED <<cacheVars, embedVars, vecVars, retVars, loopVars, restVars>>

SpecRerun == InitRerun /\ [][RerunNext]_vars

InitCacheSpec == InitIngest /\ faults = 0 /\ InitCache /\ InitEmbed /\ InitVec /\ InitRet /\ InitLoop /\ InitRest

CacheNext ==
  \/ CacheConnect /\ UNCHANGED <<ingestVars, embedVars, vecVars, retVars, loopVars, restVars>>
  \/ CacheGet /\ UNCHANGED <<ingestVars, embedVars, vecVars, retVars, loopVars, restVars>>
  \/ CacheSet /\ UNCHANGED <<ingestVars, embedVars, vecVars, retVars, loopVars, restVars>>
  \/ CacheDelete /\ UNCHANGED <<ingestVars, embedVars, vecVars, retVars, loopVars, restVars>>
  \/ StoreOutage /\ UNCHANGED <<ingestVars, embedVars, vecVars, retVars, loopVars, restVars>>
  \/ Tick /\ UNCHANGED <<ingestVars, embedVars, vecVars, retVars, loopVars, restVars>>

SpecCache == InitCacheSpec /\ [][CacheNext]_vars

EmbedNext ==
  \/ EmbedBatch /\ UNCHANGED <<ingestVars, cacheVars, vecVars, retVars, loopVars, restVars>>
  \/ EmbedAttempt /\ UNCHANGED <<ingestVars, cacheVars, vecVars, retVars, loopVars, restVars>>
  \/ EmbedBackoff /\ UNCHANGED <<ingestVars, cacheVars, vecVars, retVars, loopVars, restVars>>
  \/ EmbedReturn /\ UNCHANGED <<ingestVars, cacheVars, vecVars, retVars, loopVars, restVars>>

SpecEmbed == Init /\ [][EmbedNext]_vars

VecNext ==
  \/ VsSetClient /\ UNCHANGED <<ingestVars, cacheVars, embedVars, retVars, loopVars, restVars>>
  \/ VsEnsure /\ UNCHANGED <<ingestVars, cacheVars, embedVars, retVars, loopVars, restVars>>
  \/ VsUpsert /\ UNCHANGED <<ingestVars, cacheVars, embedVars, retVars, loopVars, restVars>>

SpecVec == Init /\ [][VecNext]_vars

RankNext ==
  \/ Combine /\ UNCHANGED <<ingestVars, cacheVars, embedVars, vecVars, loopVars, restVars>>
  \/ Rerank /\ UNCHANGED <<ingestVars, cacheVars, embedVars, vecVars, loopVars, restVars>>
  \/ RetTaken /\ UNCHANGED <<ingestVars, cacheVars, embedVars, vecVars, loopVars, restVars>>

SpecRank == Init /\ [][RankNext]_vars

RetrieveNext ==
  \/ Retrieve /\ UNCHANGED <<ingestVars, cacheVars, embedVars, vecVars, loopVars, restVars>>
  \/ RetTaken /\ UNCHANGED <<ingestVars, cacheVars, embedVars, vecVars, loopVars, restVars>>

SpecRetrieve == Init /\ [][RetrieveNext]_vars

LoopNext ==
  \/ RunAwaits /\ UNCHANGED <<ingestVars, cacheVars, embedVars, vecVars, retVars, restVars>>
  \/ RunEmbed /\ UNCHANGED <<ingestVars, cacheVars, embedVars, vecVars, retVars, restVars>>
  \/ QueryEmbed /\ UNCHANGED <<ingestVars, cacheVars, embedVars, vecVars, retVars, restVars>>
  \/ \E t \in {"run", "query"} :
       EmbedAnswers(t) /\ UNCHANGED <<ingestVars, cacheVars, embedVars, vecVars, retVars, restVars>>
  \/ \E t \in {"run", "query"} :
       BackoffOver(t) /\ UNCHANGED <<ingestVars, cacheVars, embedVars, vecVars, retVars, restVars>>
  \/ \E t \in {"run", "query"} :
       StoreAnswers(t) /\ UNCHANGED <<ingestVars, cacheVars, embedVars, vecVars, retVars, restVars>>
  \/ QueryScore /\ UNCHANGED <<ingestVars, cacheVars, embedVars, vecVars, retVars, restVars>>
  \/ QueryReturns /\ UNCHANGED <<ingestVars, cacheVars, embedVars, vecVars, retVars, restVars>>
  \/ RunCommits /\ UNCHANGED <<ingestVars, cacheVars, embedVars, vecVars, retVars, restVars>>
  \/ Request /\ UNCHANGED <<ingestVars, cacheVars, embedVars, vecVars, retVars, restVars>>

SpecLoop == Init /\ [][LoopNext]_vars

Step4SpecNext ==
  \/ Step4OtherRequest /\ UNCHANGED <<ingestVars, cacheVars, embedVars, vecVars, retVars, loopVars, pageVars, searchVars, chatVars>>
  \/ Step4Start /\ UNCHANGED <<ingestVars, cacheVars, embedVars, vecVars, retVars, loopVars, pageVars, searchVars, chatVars>>
  \/ Step4Client /\ UNCHANGED <<ingestVars, cacheVars, embedVars, vecVars, retVars, loopVars, pageVars, searchVars, chatVars>>
  \/ Step4Ensure /\ UNCHANGED <<ingestVars, cacheVars, embedVars, vecVars, retVars, loopVars, pageVars, searchVars, chatVars>>
  \/ Step4Upsert /\ UNCHANGED <<ingestVars, cacheVars, embedVars, vecVars, retVars, loopVars, pageVars, searchVars, chatVars>>
  \/ Step4Next /\ UNCHANGED <<ingestVars, cacheVars, embedVars, vecVars, retVars, loopVars, pageVars, searchVars, chatVars>>

SpecStep4 == Init /\ [][Step4SpecNext]_vars

ChunkNext ==
  \/ ChunkPaged /\ UNCHANGED <<ingestVars, cacheVars, embedVars, vecVars, retVars, loopVars, stepVars, searchVars, chatVars>>
  \/ PagedTaken /\ UNCHANGED <<ingestVars, cacheVars, embedVars, vecVars, retVars, loopVars, stepVars, searchVars, chatVars>>

SpecChunk == Init /\ [][ChunkNext]_vars

FilterNext ==
  \/ FilteredRetrieve /\ UNCHANGED <<ingestVars, cacheVars, embedVars, vecVars, retVars, loopVars, stepVars, pageVars, chatVars>>
  \/ SearchTaken /\ UNCHANGED <<ingestVars, cacheVars, embedVars, vecVars, retVars, loopVars, stepVars, pageVars, chatVars>>

SpecFilter == Init /\ [][FilterNext]_vars

ChatNext ==
  \/ \E d \in DocIds : ChatIndexed(d) /\ UNCHANGED <<ingestVars, cacheVars, embedVars, vecVars, retVars, loopVars, stepVars, pageVars, searchVars>>
  \/ \E d \in DocIds : ChatDeleted(d) /\ UNCHANGED <<ingestVars, cacheVars, embedVars, vecVars, retVars, loopVars, stepVars, pageVars, searchVars>>
  \/ Chat /\ UNCHANGED <<ingestVars, cacheVars, embedVars, vecVars, retVars, loopVars, stepVars, pageVars, searchVars>>
  \/ \E q \in ChatQueries : ChatCacheExpires(q) /\ UNCHANGED <<ingestVars, cacheVars, embedVars, vecVars, retVars, loopVars, stepVars, pageVars, searchVars>>

SpecChat == Init /\ [][ChatNext]_vars

----------------------------------------------------------------------------
(* Properties *)

RowsOf(d) == {r \in chunkRows : r.document_id = d}

\* C1: the persisted status of a Document only moves UPLOADED -> PROCESSING,
\* PROCESSING -> COMPLETED or PROCESSING -> FAILED; a row is created as UPLOADED, and
\* the only other change to a row is its deletion.
C1_StatusTransitions ==
  [][\A d \in DocIds :
       \/ docs'[d].status = docs[d].status
       \/ docs[d].status = "absent" /\ docs'[d].status = UPLOADED
       \/ docs[d].status = UPLOADED /\ docs'[d].status = PROCESSING
       \/ docs[d].status = PROCESSING /\ docs'[d].status \in {COMPLETED, FAILED}
       \/ docs[d].status # "absent" /\ docs'[d].status = "absent"]_vars

\* One document has gone UPLOADED -> PROCESSING -> COMPLETED, another
\* UPLOADED -> PROCESSING -> FAILED.
C1_Witness ==
  \E d \in DocIds, e \in DocIds :
    /\ docs[d].status = COMPLETED /\ run[d].pc = "done"
    /\ docs[e].status = FAILED /\ run[e].pc = "done"

\* The vectors and Chunk rows of d agree: total_chunks rows with the ids
\* <d>_chunk_<i>, i < total_chunks, each with vector_id equal to its id, and exactly
\* the vectors under those ids carry document id d.
Consistent(d) ==
  LET n == docs[d].total_chunks IN
  /\ Cardinality(RowsOf(d)) = n
  /\ {r.id : r \in RowsOf(d)} = {ChunkId(d, i) : i \in 0..(n - 1)}
  /\ \A r \in RowsOf(d) : r.vector_id = r.id
  /\ {p.id : p \in SearchFiltered(points, d)} = {r.vector_id : r \in RowsOf(d)}
  /\ Cardinality(SearchFiltered(points, d)) = n

\* A delete_document call has removed the vectors of d.
VectorsDeleted(d) == del[d].pc \in {"staged", "done"} /\ ~del[d].vecFailed
                     /\ del[d].result # "DocumentNotFoundException"

\* C2, as stated: every COMPLETED Document has exactly one vector per Chunk row and
\* no other vector with its document id, vector_id = chunk id = <d>_chunk_<i> for
\* i < total_chunks, and total_chunks rows.
C2_Completed ==
  \A d \in DocIds : docs[d].status = COMPLETED => Consistent(d)

\* C2, amended: the same, for every COMPLETED Document whose vectors no
\* delete_document call has removed.
C2_CompletedNotBeingDeleted ==
  \A d \in DocIds : docs[d].status = COMPLETED /\ ~VectorsDeleted(d) => Consistent(d)

\* A Document is COMPLETED with MaxChunks chunks while a delete_document call for it
\* is about to issue its vector deletion.
C2_Witness ==
  \E d \in DocIds :
    /\ docs[d].status = COMPLETED
    /\ docs[d].total_chunks = MaxChunks
    /\ del[d].pc = "chunks"

\* C3: a run in which one of the claimed steps raised ends with the Document
\* persisted as FAILED, error_message the raised error, retry_count one more than
\* the run found, and the raised error propagated.
C3_FailureRecorded ==
  [][\A d \in DocIds :
       (run[d].pc # "done" /\ run'[d].pc = "done" /\ run'[d].raised \in ClaimedSteps)
         => /\ docs'[d].status = FAILED
            /\ docs'[d].error_message = run'[d].raised
            /\ docs'[d].retry_count = run'[d].retry0 + 1
            /\ run'[d].propagated = run'[d].raised]_vars

\* C4: after a second run on a document whose first run completed (and which nobody
\* deletes), the Document is COMPLETED with the total_chunks, the vector ids and the
\* Chunk rows the first run left.
C4_Idempotent ==
  \A d \in DocIds :
    (firstRun[d].done /\ runCount[d] = 2 /\ run[d].pc = "done" /\ del[d].pc = "idle")
      => /\ docs[d].status = COMPLETED
         /\ docs[d].total_chunks = firstRun[d].total_chunks
         /\ {p.id : p \in SearchFiltered(points, d)} = firstRun[d].vectors
         /\ RowsOf(d) = firstRun[d].rows

\* C5: once delete_document(d) has returned successfully, a search filtered to d is
\* empty and neither a Chunk row nor the Document row of d remains.
C5_DeleteComplete ==
  \A d \in DocIds :
    (del[d].pc = "done" /\ del[d].result = "success")
      => /\ SearchFiltered(points, d) = {}
         /\ RowsOf(d) = {}
         /\ docs[d] = NoRow

\* C6: a delete_document(d) whose vector deletion raised (and whose relational
\* commit did not) returns success with every Chunk row and the Document row of d
\* deleted.
C6_VectorFailureTolerated ==
  \A d \in DocIds :
    (del[d].pc = "done" /\ del[d].vecFailed /\ del[d].result # "commit_error")
      => /\ del[d].result = "success"
         /\ docs[d] = NoRow
         /\ RowsOf(d) = {}

\* C7: once a Document is FAILED, no step changes its status (the row can only be
\* deleted) and no step starts another run for it.
C7_FailedTerminal ==
  [][\A d \in DocIds :
       docs[d].status = FAILED
         => /\ docs'[d].status \in {FAILED, "absent"}
            /\ run'[d] = run[d]]_vars

\* A Document stays FAILED while a later upload is ingested to COMPLETED and the
\* reindex endpoint has been called.
C7_Witness ==
  \E d \in DocIds, e \in DocIds :
    /\ d < e
    /\ docs[d].status = FAILED
    /\ docs[e].status = COMPLETED
    /\ reindexJobs >= 1

\* C8: get and set never raise; with the store unreachable, never connected or
\* failing during the call, get returns None and set returns False.
C8_CacheNeverRaises ==
  /\ cacheRes.result # "raised"
  /\ cacheRes.degraded # "no" /\ cacheRes.op = "get" => cacheRes.result = "None"
  /\ cacheRes.degraded # "no" /\ cacheRes.op = "set" => cacheRes.result = "False"

\* A get on a connected service whose store fails during the call, for a key that
\* holds an unexpired value.
C8_Witness ==
  /\ cacheRes.op = "get"
  /\ cacheRes.degraded = "store_failed"
  /\ cacheRes.result = "None"
  /\ lastSet[cacheRes.key].set
  /\ cacheRes.at < store[cacheRes.key].exp

\* C9: with the store available, a get of a key after set(key, v, ttl) with a JSON
\* value v, no set or delete of the key in between, returns v before ttl seconds
\* have elapsed and a miss once they have.
C9_SetThenGet ==
  (/\ cacheRes.op = "get"
   /\ cacheRes.degraded = "no"
   /\ lastSet[cacheRes.key].set
   /\ lastSet[cacheRes.key].given
   /\ lastSet[cacheRes.key].v \in JsonValues)
    => LET s == lastSet[cacheRes.key] IN
       IF cacheRes.at - s.at < s.ttl
         THEN cacheRes.result = s.v
         ELSE cacheRes.result = "None"

\* C10: a call of generate_embedding makes at most StopAfterAttempt (3) attempts;
\* it ends either with the vector of its first successful attempt, which is its
\* last, or with EmbeddingException after exactly 3 failed attempts.
C10_AtMostThreeAttempts ==
  /\ Len(emb.log) < 3
  /\ emb.last # NoEmbCall =>
       LET log == emb.last.log IN
       /\ Len(log) \in 1..3
       /\ \A j \in 1..(Len(log) - 1) : log[j] # "embedding"
       /\ \/ /\ log[Len(log)] = "embedding"
             /\ emb.last.result = Embedding(emb.last.text)
          \/ /\ log[Len(log)] # "embedding"
             /\ Len(log) = 3
             /\ emb.last.result = "EmbeddingException"

\* C11: generate_embeddings_batch(texts) either returns len(texts) vectors, the
\* i-th being the embedding of texts[i], or raises EmbeddingException without a
\* list, and then no text after the failing one has been sent to the provider.
C11_BatchOrderedOrAborted ==
  emb.pc = "done" =>
    \/ /\ emb.result = "returned"
       /\ Len(emb.out) = Len(emb.texts)
       /\ \A i \in 1..Len(emb.texts) : emb.out[i] = Embedding(emb.texts[i])
    \/ /\ emb.result = "EmbeddingException"
       /\ emb.out = <<>>
       /\ emb.last.text = emb.texts[emb.queue[emb.i]]
       /\ emb.last.result = "EmbeddingException"
       /\ emb.sent \subseteq 1..emb.queue[emb.i]

\* A batch of two different texts, embedded one per inner batch, has returned.
C11_Witness ==
  /\ emb.pc = "done"
  /\ emb.result = "returned"
  /\ Len(emb.texts) = 2
  /\ emb.texts[1] # emb.texts[2]
  /\ Len(emb.out) = 2

\* A VectorStoreService call has just been made.
VsCalled(op) == vsRes'.turn # vsRes.turn /\ vsRes'.op = op

\* C12: upsert_vectors with ids, vectors and payloads not all of one length raises
\* VectorStoreException (the shape mismatch, on a service that has its client)
\* without a call to the store, and leaves the points as they were.
C12_ShapeMismatchRejected ==
  [][(/\ VsCalled("upsert")
      /\ vsRes'.unequal)
       => /\ vsRes'.result = "VectorStoreException"
          /\ vsClient => vsRes'.cause = "shape"
          /\ vsRes'.storeCalls = 0
          /\ vsPoints' = vsPoints]_vars

\* A mismatched upsert was rejected while the collection held points.
C12_Witness ==
  /\ vsRes.op = "upsert"
  /\ vsRes.cause = "shape"
  /\ vsRes.unequal
  /\ vsPoints # {}

\* C13: the collection holds at most one point per id, and the point under an id
\* carries the vector and payload of the most recent upsert of that id.
C13_UpsertReplaces ==
  /\ \A p \in vsPoints, q \in vsPoints : p.id = q.id => p = q
  /\ \A id \in PointIds :
       vsLast[id].set =>
         [id |-> id, vector |-> vsLast[id].vector, payload |-> vsLast[id].payload]
           \in vsPoints

\* An upsert has replaced a stored point by one with another vector or payload.
C13_Witness ==
  /\ vsRes.op = "upsert"
  /\ vsRes.result = "ok"
  /\ vsRes.replaced
  /\ Cardinality(vsPoints) = 2

\* C14: with the store answering, ensure_collection_exists raises nothing, issues
\* one create when the collection is absent and none when it exists, and leaves an
\* existing collection and the points as they were.
C14_EnsureIdempotent ==
  [][(VsCalled("ensure") /\ vsClient /\ ~vsRes'.outage)
       => /\ vsRes'.result = "ok"
          /\ vsRes'.creates = IF vsCollection = 0 THEN 1 ELSE 0
          /\ vsCollection' # 0
          /\ vsCollection # 0 => vsCollection' = vsCollection
          /\ vsPoints' = vsPoints]_vars

\* ensure_collection_exists was called on an existing collection that holds points
\* and issued no create.
C14_Witness ==
  /\ vsRes.op = "ensure"
  /\ vsRes.result = "ok"
  /\ vsRes.creates = 0
  /\ vsPoints # {}

\* The ids of a result list, and the place of an id in it.
IdsOf(list) == {list[k].id : k \in 1..Len(list)}
PlaceOf(list, id) == CHOOSE k \in 1..Len(list) : list[k].id = id

\* The score at place k of a list divided by the maximum of the list, or left as
\* it is when the maximum is 0.
NormOf(list, k) ==
  LET top == CHOOSE m \in {list[i].score : i \in 1..Len(list)} :
               \A i \in 1..Len(list) : list[i].score <= m
  IN IF top = 0 THEN list[k].score ELSE (list[k].score * Scale) \div top

\* The weighted term of an id in a list: weight * normalised score, nothing when
\* the id is not in the list.
TermOf(list, id, weight) ==
  IF id \in IdsOf(list) THEN (weight * NormOf(list, PlaceOf(list, id))) \div Scale ELSE 0

\* C15: _combine_results returns one record per id of the union of the two lists,
\* whose score is vector_weight * normalised vector score plus bm25_weight *
\* normalised lexical score, each term present only when the id is in that list.
C15_FusedScores ==
  ret.op = "combine" =>
    /\ IdsOf(ret.out) = IdsOf(ret.vector) \cup IdsOf(ret.bm25)
    /\ Len(ret.out) = Cardinality(IdsOf(ret.vector) \cup IdsOf(ret.bm25))
    /\ \A k \in 1..Len(ret.out) :
         ret.out[k].score = TermOf(ret.vector, ret.out[k].id, ret.vw)
                              + TermOf(ret.bm25, ret.out[k].id, ret.bw)

\* Two lists that share one id and have one id each of their own were fused, the
\* shared id below the maximum of both lists.
C15_Witness ==
  /\ ret.op = "combine"
  /\ ret.bw # 0
  /\ Len(ret.out) = 3
  /\ \E k \in 1..3 : /\ ret.out[k].id \in IdsOf(ret.vector) \cap IdsOf(ret.bm25)
                      /\ ret.out[k].score = 500

\* C16 as stated: with bm25_weight 0 the fused list is the vector list, id by id in
\* the same order, every score vector_weight * the vector score.
C16_FusionDegeneracy ==
  (ret.op = "combine" /\ ret.bw = 0) =>
    /\ Len(ret.out) = Len(ret.vector)
    /\ \A k \in 1..Len(ret.out) :
         /\ ret.out[k].id = ret.vector[k].id
         /\ ret.out[k].score = (ret.vw * ret.vector[k].score) \div Scale

\* C16 as amended: with bm25_weight 0 the fused list begins with the ids of the
\* vector list in the order of that list, every score vector_weight * the
\* normalised vector score, and ends with the ids found in the lexical list only,
\* every score 0.
C16_DegenerateToNormalisedVector ==
  (ret.op = "combine" /\ ret.bw = 0) =>
    /\ Len(ret.out) >= Len(ret.vector)
    /\ \A k \in 1..Len(ret.out) :
         IF k <= Len(ret.vector)
         THEN /\ ret.out[k].id = ret.vector[k].id
              /\ ret.out[k].score = (ret.vw * NormOf(ret.vector, k)) \div Scale
         ELSE /\ ret.out[k].id \in IdsOf(ret.bm25) \ IdsOf(ret.vector)
              /\ ret.out[k].score = 0

\* Fused with bm25_weight 0: a vector list whose maximum is neither 0 nor 1, and a
\* lexical list with an id of its own.
C16_Witness ==
  /\ ret.op = "combine"
  /\ ret.bw = 0
  /\ Len(ret.vector) = 2
  /\ \A k \in 1..2 : ret.vector[k].score = 500
  /\ IdsOf(ret.bm25) \ IdsOf(ret.vector) # {}
  /\ Len(ret.out) = 3

\* C17: every record rerank returns carries the score of its candidate as
\* original_score and final_score = 0.7 * score + 0.2 * overlap + 0.1 * length_fit,
\* overlap the share of the query terms found in the document (0 without query
\* terms), length_fit 0.5 under 50 words, else min(words, 500) / 500, times 0.8
\* above 1000 words.
C17_FinalScore ==
  (ret.op = "rerank" /\ ret.result = "returned") =>
    \A k \in 1..Len(ret.out) :
      \E i \in 1..Len(ret.cands) :
        LET words == ret.cands[i].payload.content.words
            q == Terms(ret.query)
            d == Terms(ret.cands[i].payload.content.tokens)
            overlap == IF q = {} THEN 0
                       ELSE (Cardinality(q \cap d) * Scale) \div Cardinality(q)
            fit == ((IF words < 500 THEN words ELSE 500) * Scale) \div 500
            length_fit == IF words < 50 THEN 500
                          ELSE IF words > 1000 THEN (fit * 800) \div Scale
                          ELSE fit
        IN /\ ret.out[k].id = ret.cands[i].id
           /\ ret.out[k].original_score = ret.cands[i].score
           /\ ret.out[k].final_score = (700 * ret.cands[i].score) \div Scale
                                         + (200 * overlap) \div Scale
                                         + (100 * length_fit) \div Scale

\* rerank returned a document of exactly 1000 words and one of more, for a query
\* whose terms the first holds in part.
C17_Witness ==
  /\ ret.op = "rerank"
  /\ ret.result = "returned"
  /\ Len(ret.out) = 2
  /\ \E k \in 1..2 : ret.out[k].content.words = 1000 /\ ret.out[k].rerank_score = 1000
  /\ \E k \in 1..2 : ret.out[k].content.words = 1001

\* C18: for a top_k >= 0 given by the caller, retrieve returns at most top_k
\* records by non-increasing score, no chunk twice, each made of a candidate, none
\* of the top_k best candidates left out, and nothing for no candidate.
C18_TopKBestInOrder ==
  (ret.op = "retrieve" /\ ret.given /\ ret.result = "returned") =>
    LET n == Len(ret.out)
        final(i) == RankedResult(ret.query, ret.cands[i]).final_score
    IN /\ n <= ret.top_k
       /\ n = Min(ret.top_k, Len(ret.cands))
       /\ \A k \in 1..(n - 1) : ret.out[k].score >= ret.out[k + 1].score
       /\ \A k \in 1..n, j \in 1..n : ret.out[k].chunk_id = ret.out[j].chunk_id => k = j
       /\ \A k \in 1..n : \E i \in 1..Len(ret.cands) :
            /\ ret.cands[i].id = ret.out[k].chunk_id
            /\ ret.cands[i].score = ret.out[k].original_score
            /\ final(i) = ret.out[k].score
       /\ \A i \in 1..Len(ret.cands) :
            (\A k \in 1..n : ret.out[k].chunk_id # ret.cands[i].id)
              => \A k \in 1..n : ret.out[k].score >= final(i)
       /\ ret.cands = <<>> => ret.out = <<>>

\* C19: retrieve returns no result list when the query embedding, the vector
\* search or the lexical scoring has failed during the call: it raises.
C19_ProviderFailurePropagates ==
  (ret.op = "retrieve" /\ ret.failed # "none") => ret.result # "returned"

\* C20: while the run or the query is inside an embedding call, a wait between
\* embedding attempts, a vector search or the lexical scoring, every other
\* coroutine that has not ended can take a step.
C20_ProviderCallsDoNotStall ==
  \A t \in {"run", "query"} :
    task[t].pc \in {"embedding", "backoff", "searching", "scoring"} =>
      \A u \in Tasks \ {t} : task[u].pc \notin Ended => ENABLED TaskStep(u)

\* The step of d's run is one of its failure path after a completed upsert: the
\* final commit raising, or the commit of the except block.
FailurePathStep(d) ==
  /\ run[d].pc \in {"finalizing", "failing"}
  /\ run'[d] # run[d]
  /\ run'[d].raised \in {"persist", "final"}

\* C21: a run that fails after its upsert succeeded (while persisting Chunk rows or
\* at the final commit) performs no vector-index operation on its failure path, and
\* ends with no Chunk row of the document in the relational store.
C21_FailureKeepsVectorsNoRows ==
  [][\A d \in DocIds :
       FailurePathStep(d)
         => /\ points' = points
            /\ collection' = collection
            /\ run'[d].pc = "done" => {r \in chunkRows' : r.document_id = d} = {}]_vars

\* C22: every step that removes the Document row or a Chunk row of d is the commit
\* of a delete_document(d) call whose vector deletion by filter document_id = d has
\* already been attempted (it deleted, or it raised and was logged).
C22_VectorsBeforeRows ==
  [][\A d \in DocIds :
       (\/ docs[d] # NoRow /\ docs'[d] = NoRow
        \/ \E r \in chunkRows \ chunkRows' : r.document_id = d)
         => /\ del[d].pc = "staged"
            /\ del'[d].pc = "done"]_vars

\* A delete_document call has removed the vectors, the Chunk rows and the Document
\* row of an ingested document, and another has removed the rows after its vector
\* deletion raised.
C22_Witness ==
  \E d \in DocIds, e \in DocIds :
    /\ del[d].pc = "done" /\ del[d].result = "success"
    /\ ~del[d].vecFailed /\ del[d].chunks # {} /\ docs[d] = NoRow
    /\ del[e].pc = "done" /\ del[e].result = "success"
    /\ del[e].vecFailed /\ docs[e] = NoRow

\* C23: once ensure_collection_exists has returned in step 4 of a run that produced
\* at least one embedding, the collection exists and its dimension is the
\* dimension of the run's embeddings.
C23_CollectionAtObservedDimension ==
  (step4.pc = "upsert" /\ step4.n >= 1)
    => step4.coll # 0 /\ step4.coll = step4.dim

\* C24: every chunk of chunk_document_with_pages carries the 1-based number of
\* the page its text came from, pages in output order, no chunk for a blank page;
\* chunk_index runs 0, 1, ..., n-1 over the whole output and total_chunks is n.
C24_PageTagsAndGlobalIndex ==
  paged.op # "None" =>
    LET out == paged.out
        n == Len(out)
    IN
    /\ \A k \in 1..n :
         /\ out[k].page \in 1..Len(paged.page_texts)
         /\ strip(paged.page_texts[out[k].page]) # ""
         /\ \E i \in 1..Len(split_text(paged.page_texts[out[k].page])) :
              split_text(paged.page_texts[out[k].page])[i] = out[k].content
         /\ k > 1 => out[k - 1].page <= out[k].page
         /\ out[k].chunk_index = k - 1
         /\ out[k].total_chunks = n

\* C25: generate_embedding on empty or whitespace-only text fails with the
\* empty-input error without a provider call, on its first attempt: the call is
\* over after one attempt and never waits in a backoff.
C25_BlankFailsAtOnce ==
  /\ (emb.last.log # <<>> /\ Blank(emb.last.text))
       => /\ emb.last.result = "EmbeddingException"
          /\ emb.last.log = <<"blank">>
  /\ (emb.pc = "backoff" /\ emb.log # <<>>) => emb.log[Len(emb.log)] # "blank"

\* C26: a run that has ended, on whatever path, does not leave its Document
\* persisted as PROCESSING: the row is COMPLETED or FAILED (or was never marked,
\* or has been deleted).
C26_NotLeftProcessing ==
  \A d \in DocIds : run[d].pc = "done" => docs[d].status # PROCESSING

\* C27: once a delete_document(d) call whose vector deletion and commit both
\* succeeded and the ingestion run of d have both finished, in whatever order
\* their steps interleaved, no vector with document_id = d, no Chunk row of d and
\* no Document row of d is left.
C27_DeleteWinsOverRun ==
  \A d \in DocIds :
    (/\ del[d].pc = "done" /\ del[d].result = "success" /\ ~del[d].vecFailed
     /\ run[d].pc = "done")
      => /\ SearchFiltered(points, d) = {}
         /\ RowsOf(d) = {}
         /\ docs[d] = NoRow

C29_ResultsSatisfyFilter ==
  (search.op = "retrieve" /\ search.filter # {})
    => \A k \in 1..Len(search.out) : MatchesFilter(search.out[k], search.filter)

\* C30: no chat response sent after delete_document(d) has completed contains a
\* retrieved chunk of d, whether retrieved or served from the Result Cache.
C30_NoChunkOfDeletedDocument ==
  chat.resp.docs \cap chat.deleted = {}

\* A response has been served from the Result Cache after a deletion.
C30_CacheHitAfterDelete ==
  chat.resp.hit /\ chat.deleted # {}

\* A call that failed twice and returned the vector of its third attempt.
C10_Witness ==
  /\ emb.last.log = <<"error", "empty", "embedding">>
  /\ emb.last.result = Embedding(emb.last.text)

====
